---- MODULE Spec2Model ----
(***************************************************************************)
(* Model of cpp/source/base/Configuration.cpp (rocketmq-clients):          *)
(* Configuration::newBuilder, the five ConfigurationBuilder setters and    *)
(* ConfigurationBuilder::build, over an object store in which every        *)
(* builder's configuration_ member and every returned Configuration is an  *)
(* object of its own, with the shared_ptr use counts of the credentials    *)
(* providers.                                                              *)
(***************************************************************************)
EXTENDS Integers, FiniteSets, TLC

\* ---------------------------------------------------------------- bounds
NBuilders == 2      \* builders obtained from newBuilder()
MaxConfigs == 2     \* Configurations returned by build()
MaxCalls == 2       \* setter calls in one run

\* ---------------------------------------------------------------- values
Strings == {"", "a"}
Null == 0
Providers == {1, 2}   \* the CredentialsProvider objects the caller created
ProviderArgs == Providers \cup {Null}
Timeouts == {-1, 0}
Fields == {"endpoints_", "resource_namespace_", "credentials_provider_",
           "request_timeout_", "tls_"}

\* Defaults of the members of Configuration (default member initialisers).
DefaultRequestTimeout == 3
DefaultTls == TRUE
DefaultConfiguration ==
  [endpoints_ |-> "", resource_namespace_ |-> "", credentials_provider_ |-> Null,
   request_timeout_ |-> DefaultRequestTimeout, tls_ |-> DefaultTls]

\* ---------------------------------------------------------------- state
VARIABLES
  mem,        \* object store: address -> Configuration value
  returned,   \* the Configurations build() has returned: address -> how it was built
  hist,       \* per builder: calls made of each setter and the last argument of each
  builds,     \* per builder: number of build() calls made on it
  use_count,  \* per provider: shared_ptr use count
  handle,     \* per provider: the caller still has its own shared_ptr
  destroyed,  \* providers whose use count reached zero
  ncalls,     \* setter calls made so far, on all builders
  ret         \* per builder: the object its last setter call returned (0: none yet)

vars == <<mem, returned, hist, builds, use_count, handle, destroyed, ncalls, ret>>

BuilderAddrs == 1..NBuilders
ConfigAddrs == (NBuilders + 1)..(NBuilders + NBuilders * MaxConfigs)
Builders == DOMAIN mem \cap BuilderAddrs

NoHist == [n |-> [f \in Fields |-> 0], arg |-> DefaultConfiguration]

Init ==
  /\ mem = << >>
  /\ returned = << >>
  /\ hist = [b \in BuilderAddrs |-> NoHist]
  /\ builds = [b \in BuilderAddrs |-> 0]
  /\ use_count = [p \in Providers |-> 1]
  /\ handle = [p \in Providers |-> TRUE]
  /\ destroyed = {}
  /\ ncalls = 0
  /\ ret = [b \in BuilderAddrs |-> 0]

\* ---------------------------------------------------------------- helpers
\* Address of the configuration_ member of the builder at address self.
\* (configuration_static: one static member shared by all builders.)
configuration_static(self) == 1
configuration_(self) == self

\* What a setter returns: *this.
\* (ReturnThis_copy: a setter returning ConfigurationBuilder by value.)
ReturnThis_copy(self) == self + NBuilders
ReturnThis(self) == self

\* The objects a call can be made on: a builder the caller has, or the
\* reference a setter of a chain returned.
Targets == (Builders \cup {ret[b] : b \in Builders}) \cap DOMAIN mem \cap BuilderAddrs

\* Setter calls made on the builder at b.
Calls(b) ==
  hist[b].n["endpoints_"] + hist[b].n["resource_namespace_"]
    + hist[b].n["credentials_provider_"] + hist[b].n["request_timeout_"] + hist[b].n["tls_"]

\* shared_ptr release of one reference to p.
\* (Release_leak: the reference held before is never released.)
Release_leak(uc, p) == uc
Release(uc, p) == IF p = Null THEN uc ELSE [uc EXCEPT ![p] = @ - 1]

\* shared_ptr acquisition of one more reference to p (copy construction).
Acquire(uc, p) == IF p = Null THEN uc ELSE [uc EXCEPT ![p] = @ + 1]

Dead(uc) == {p \in Providers : uc[p] = 0}

Record(self, f, v) ==
  hist' = [hist EXCEPT ![self] = [n |-> [@.n EXCEPT ![f] = @ + 1],
                                  arg |-> [@.arg EXCEPT ![f] = v]]]

\* A setter call on the builder at self, which returns *this.
Called(self) ==
  /\ ncalls' = ncalls + 1
  /\ ret' = [ret EXCEPT ![self] = ReturnThis(self)]
  /\ UNCHANGED <<returned, builds>>

\* ---------------------------------------------------------------- operations
\* Configuration::newBuilder(): return {};
\* (newBuilder_dirty: a builder that does not start from the defaults.)
newBuilder_dirty ==
  /\ Cardinality(Builders) < NBuilders
  /\ LET b == Cardinality(Builders) + 1 IN
       mem' = (b :> [DefaultConfiguration EXCEPT !.endpoints_ = "a"]) @@ mem
  /\ UNCHANGED <<returned, hist, builds, use_count, handle, destroyed, ncalls, ret>>

newBuilder ==
  /\ Cardinality(Builders) < NBuilders
  /\ LET b == Cardinality(Builders) + 1 IN
       mem' = (b :> DefaultConfiguration) @@ mem
  /\ UNCHANGED <<returned, hist, builds, use_count, handle, destroyed, ncalls, ret>>

withEndpoints(self, endpoints) ==
  /\ Called(self)
  /\ mem' = [mem EXCEPT ![configuration_(self)].endpoints_ = endpoints]
  /\ Record(self, "endpoints_", endpoints)
  /\ UNCHANGED <<use_count, handle, destroyed>>

\* (withNamespace_wrong_field: the namespace assigned to endpoints_.)
withNamespace_wrong_field(self, resource_namespace) ==
  /\ Called(self)
  /\ mem' = [mem EXCEPT ![configuration_(self)].endpoints_ = resource_namespace]
  /\ Record(self, "resource_namespace_", resource_namespace)
  /\ UNCHANGED <<use_count, handle, destroyed>>

withNamespace(self, resource_namespace) ==
  /\ Called(self)
  /\ mem' = [mem EXCEPT ![configuration_(self)].resource_namespace_ = resource_namespace]
  /\ Record(self, "resource_namespace_", resource_namespace)
  /\ UNCHANGED <<use_count, handle, destroyed>>

\* What the assignment credentials_provider_ = std::move(provider) stores.
\* (StoredProvider_empty: an already moved-from handle is stored.)
StoredProvider_empty(provider) == Null
StoredProvider(provider) == provider

\* provider is passed by value: the caller copies its handle into the parameter
\* (one more reference) or moves it (the caller's handle becomes empty).  The
\* move assignment releases the reference the member held before.
withCredentialsProvider(self, provider, moved) ==
  /\ Called(self)
  /\ provider # Null => handle[provider]
  /\ moved => provider # Null
  /\ LET old == mem[configuration_(self)].credentials_provider_
         uc  == Release(IF moved THEN use_count ELSE Acquire(use_count, provider), old)
     IN /\ mem' = [mem EXCEPT ![configuration_(self)].credentials_provider_ =
                                StoredProvider(provider)]
        /\ use_count' = uc
        /\ destroyed' = destroyed \cup Dead(uc)
  /\ handle' = IF moved THEN [handle EXCEPT ![provider] = FALSE] ELSE handle
  /\ Record(self, "credentials_provider_", provider)

\* (withRequestTimeout_validating: non-positive timeouts are refused.)
withRequestTimeout_validating(self, request_timeout) ==
  /\ request_timeout > 0
  /\ Called(self)
  /\ mem' = [mem EXCEPT ![configuration_(self)].request_timeout_ = request_timeout]
  /\ Record(self, "request_timeout_", request_timeout)
  /\ UNCHANGED <<use_count, handle, destroyed>>

withRequestTimeout(self, request_timeout) ==
  /\ Called(self)
  /\ mem' = [mem EXCEPT ![configuration_(self)].request_timeout_ = request_timeout]
  /\ Record(self, "request_timeout_", request_timeout)
  /\ UNCHANGED <<use_count, handle, destroyed>>

\* (withSsl_global: tls_ as one flag shared by all builders.)
withSsl_global(self, with_ssl) ==
  /\ Called(self)
  /\ mem' = [a \in DOMAIN mem |->
               IF a \in BuilderAddrs THEN [mem[a] EXCEPT !.tls_ = with_ssl] ELSE mem[a]]
  /\ Record(self, "tls_", with_ssl)
  /\ UNCHANGED <<use_count, handle, destroyed>>

withSsl(self, with_ssl) ==
  /\ Called(self)
  /\ mem' = [mem EXCEPT ![configuration_(self)].tls_ = with_ssl]
  /\ Record(self, "tls_", with_ssl)
  /\ UNCHANGED <<use_count, handle, destroyed>>

\* A moved-from std::string is valid but unspecified: the library either took
\* its buffer (it is left empty) or copied the characters (it keeps them).
MovedFromString(str) == {"", str}

\* Move construction of a Configuration from c: the new object takes the
\* provider reference and the strings; the source keeps its timeout and flag,
\* its provider handle is empty and each of its strings is left moved-from.
\* acquired: the provider that gained a reference (none on a move).
MoveConstruct(c) ==
  { [dst |-> c,
     src |-> [c EXCEPT !.endpoints_ = e, !.resource_namespace_ = n,
                       !.credentials_provider_ = Null],
     acquired |-> Null] :
    <<e, n>> \in MovedFromString(c.endpoints_) \X MovedFromString(c.resource_namespace_) }

\* The value build() returns and what it leaves in configuration_.
\* (ReturnValue_copy: return configuration_; without std::move.)
ReturnValue_copy(c) == { [dst |-> c, src |-> c, acquired |-> c.credentials_provider_] }
ReturnValue(c) == MoveConstruct(c)

\* The object build() returns: a new Configuration, returned by value (the
\* k-th object built from the builder at self has an address of its own).
\* (ReturnObject_alias: build() returning a reference to configuration_.)
ReturnObject_alias(self) == configuration_(self)
ReturnObject(self) == NBuilders + (self - 1) * MaxConfigs + builds[self] + 1

\* Configuration ConfigurationBuilder::build(): return std::move(configuration_);
build(self) ==
  /\ Cardinality(DOMAIN returned) < MaxConfigs
  /\ LET src == configuration_(self)
         obj == ReturnObject(self)
     IN \E m \in ReturnValue(mem[src]) :
          /\ mem' = (obj :> m.dst) @@ [mem EXCEPT ![src] = m.src]
          /\ use_count' = Acquire(use_count, m.acquired)
          /\ returned' = (obj :> [builder |-> self, hist |-> hist[self],
                                   nth |-> builds[self] + 1]) @@ returned
  /\ builds' = [builds EXCEPT ![self] = @ + 1]
  /\ UNCHANGED <<hist, handle, destroyed, ncalls, ret>>

\* ---------------------------------------------------------------- specification
\* MaxCalls caps the setter calls of a run; the calls themselves have no guard.
Next ==
  \/ newBuilder
  \/ ncalls < MaxCalls /\ \E self \in Targets, endpoints \in Strings :
       withEndpoints(self, endpoints)
  \/ ncalls < MaxCalls /\ \E self \in Targets, resource_namespace \in Strings :
       withNamespace(self, resource_namespace)
  \/ ncalls < MaxCalls /\ \E self \in Targets, provider \in ProviderArgs, moved \in BOOLEAN :
       withCredentialsProvider(self, provider, moved)
  \/ ncalls < MaxCalls /\ \E self \in Targets, request_timeout \in Timeouts :
       withRequestTimeout(self, request_timeout)
  \/ ncalls < MaxCalls /\ \E self \in Targets, with_ssl \in BOOLEAN :
       withSsl(self, with_ssl)
  \/ \E self \in Targets : build(self)

Spec == Init /\ [][Next]_vars

TypeOK ==
  /\ DOMAIN mem \subseteq BuilderAddrs \cup ConfigAddrs
  /\ \A a \in DOMAIN mem :
       /\ mem[a].endpoints_ \in Strings
       /\ mem[a].resource_namespace_ \in Strings
       /\ mem[a].credentials_provider_ \in ProviderArgs
       /\ mem[a].request_timeout_ \in Timeouts \cup {DefaultRequestTimeout}
       /\ mem[a].tls_ \in BOOLEAN
  /\ \A p \in Providers : use_count[p] \in Nat
  /\ ncalls \in 0..MaxCalls

\* ---------------------------------------------------------------- properties
\* The fields the setter calls recorded in h have set.
WasSet(h) == {f \in Fields : h.n[f] > 0}

\* The Configurations returned by the first build() of their builder.
FirstBuilt == {a \in DOMAIN returned : returned[a].nth = 1}

\* The objects (builder members and returned Configurations) holding p.
Holders(p) == {a \in DOMAIN mem : mem[a].credentials_provider_ = p}
Owners(p) == Cardinality(Holders(p)) + (IF handle[p] THEN 1 ELSE 0)

\* C1: in a Configuration returned by build() after a sequence of setter calls
\* on its builder, every field that was set equals the argument of the last
\* setter call for that field, whatever the calls for other fields were.
LastWriteWins ==
  [](
    \A a \in DOMAIN returned : \A f \in Fields :
      (returned[a].nth = 1 /\ returned[a].hist.n[f] > 0) => mem[a][f] = returned[a].hist.arg[f]
  )

\* withEndpoints was called twice and withNamespace never, then build().
LastWriteWinsWitness ==
  \E a \in FirstBuilt :
    /\ returned[a].hist.n["endpoints_"] = 2
    /\ WasSet(returned[a].hist) = {"endpoints_"}
    /\ mem[a].endpoints_ = returned[a].hist.arg.endpoints_
    /\ mem[a].resource_namespace_ = ""

\* C2: in a Configuration returned by build() on a builder from newBuilder(),
\* every field no setter was called for holds its default.
DefaultsRetained ==
  [](
    \A a \in DOMAIN returned : \A f \in Fields :
      (returned[a].nth = 1 /\ returned[a].hist.n[f] = 0) => mem[a][f] = DefaultConfiguration[f]
  )

\* newBuilder().build() with no setter called: all five defaults.
DefaultsRetainedWitness ==
  \E a \in FirstBuilt :
    /\ WasSet(returned[a].hist) = {}
    /\ mem[a] = DefaultConfiguration

\* C3: no step changes a Configuration that build() has returned.
ReturnedIsImmutable ==
  [][\A a \in DOMAIN returned :
       /\ a \in DOMAIN returned'
       /\ returned'[a] = returned[a]
       /\ mem'[a] = mem[a]]_vars

\* A Configuration whose builder was afterwards given a setter call and
\* built again.
ReturnedIsImmutableWitness ==
  \E a \in FirstBuilt :
    LET b == returned[a].builder IN
      /\ builds[b] >= 2
      /\ hist[b] # returned[a].hist

\* C4: after withCredentialsProvider(p) as the last provider call and build(),
\* the returned Configuration holds p itself: the provider object the caller
\* passed, which is alive and counts the Configuration among its owners.
ProviderIdentity ==
  [](
    \A a \in DOMAIN returned :
      LET p == returned[a].hist.arg.credentials_provider_ IN
        (returned[a].nth = 1 /\ returned[a].hist.n["credentials_provider_"] > 0 /\ p # Null) =>
          /\ mem[a].credentials_provider_ = p
          /\ p \notin destroyed
          /\ use_count[p] >= 1
  )

\* A Configuration built after withCredentialsProvider(p) whose caller gave
\* its own handle away: the Configuration is the only owner of p.
ProviderIdentityWitness ==
  \E a \in FirstBuilt :
    LET p == returned[a].hist.arg.credentials_provider_ IN
      /\ returned[a].hist.n["credentials_provider_"] > 0
      /\ p # Null
      /\ mem[a].credentials_provider_ = p
      /\ ~handle[p]

\* C5: a step that is no call on a builder leaves that builder's in-progress
\* Configuration unchanged.
NoCrossContamination ==
  [][\A b \in Builders :
       (hist'[b].n = hist[b].n /\ builds'[b] = builds[b]) => mem'[b] = mem[b]]_vars

\* Two builders, both given setter calls, both built, with different results.
NoCrossContaminationWitness ==
  \E a1 \in FirstBuilt, a2 \in FirstBuilt :
    /\ returned[a1].builder # returned[a2].builder
    /\ WasSet(returned[a1].hist) # {}
    /\ WasSet(returned[a2].hist) # {}
    /\ mem[a1] # mem[a2]

\* C6: newBuilder(), every setter with every argument (the empty string, the
\* absent provider, a zero or negative timeout included) and build() can be
\* called in every state of every builder in which the run may still make
\* the call; no call is refused.
NeverFails ==
  [](
    /\ Cardinality(Builders) < NBuilders => ENABLED newBuilder
    /\ ncalls < MaxCalls =>
         \A self \in Builders :
           /\ \A str \in Strings :
                ENABLED withEndpoints(self, str) /\ ENABLED withNamespace(self, str)
           /\ \A t \in Timeouts : ENABLED withRequestTimeout(self, t)
           /\ \A flag \in BOOLEAN : ENABLED withSsl(self, flag)
           /\ ENABLED withCredentialsProvider(self, Null, FALSE)
           /\ \A p \in Providers :
                handle[p] => \A moved \in BOOLEAN : ENABLED withCredentialsProvider(self, p, moved)
    /\ Cardinality(DOMAIN returned) < MaxConfigs => \A self \in Builders : ENABLED build(self)
  )

\* A builder holding an explicitly set non-positive timeout and an explicitly
\* set absent provider.
NeverFailsWitness ==
  \E b \in Builders :
    /\ hist[b].n["request_timeout_"] > 0
    /\ hist[b].n["credentials_provider_"] > 0
    /\ mem[b].request_timeout_ <= 0
    /\ mem[b].credentials_provider_ = Null
    /\ builds[b] = 0

\* C7: two Configurations built from two distinct fresh builders whose setter
\* calls agree (the same calls of each setter, the same last arguments) have
\* equal values in all five fields.
Determinism ==
  [](
    \A a1 \in DOMAIN returned, a2 \in DOMAIN returned :
      ( /\ returned[a1].nth = 1
        /\ returned[a2].nth = 1
        /\ returned[a1].builder # returned[a2].builder
        /\ returned[a1].hist = returned[a2].hist )
      => mem[a1] = mem[a2]
  )

\* Two builders given the same setter call, both built.
DeterminismWitness ==
  \E a1 \in FirstBuilt, a2 \in FirstBuilt :
    /\ returned[a1].builder # returned[a2].builder
    /\ returned[a1].hist = returned[a2].hist
    /\ WasSet(returned[a1].hist) # {}

\* C8: a setter returns the builder it was called on, and the calls of a
\* chain accumulate in that one builder's configuration_.
ReturnsThis ==
  [](
    \A b \in Builders :
      /\ Calls(b) > 0 => ret[b] = b
      /\ builds[b] = 0 => \A f \in Fields : hist[b].n[f] > 0 => mem[b][f] = hist[b].arg[f]
  )

\* A builder after two setter calls for two different fields.
ReturnsThisWitness ==
  \E b \in Builders :
    /\ Calls(b) = 2
    /\ Cardinality(WasSet(hist[b])) = 2
    /\ ret[b] = b
    /\ builds[b] = 0
    /\ mem[b] # DefaultConfiguration

\* C9: a withCredentialsProvider call that replaces the provider old held by
\* the builder with another provider new takes exactly one reference from old,
\* leaves the builder with exactly one reference to new, and destroys old
\* exactly when nothing else holds it.
OverwriteReleasesOld ==
  [][\A b \in Builders :
       LET old == mem[b].credentials_provider_
           new == mem'[b].credentials_provider_
       IN (hist'[b].n # hist[b].n /\ old # Null /\ new # Null /\ new # old) =>
            /\ use_count'[old] = use_count[old] - 1
            /\ use_count'[new] = use_count[new] + (IF handle'[new] = handle[new] THEN 1 ELSE 0)
            /\ old \in destroyed' <=> use_count'[old] = 0
            /\ use_count'[old] = 0 <=>
                 (~handle'[old] /\ \A a \in DOMAIN mem' : mem'[a].credentials_provider_ # old)
            /\ new \notin destroyed']_vars

\* A builder given two providers in turn, the first of which was destroyed.
OverwriteReleasesOldWitness ==
  \E b \in Builders :
    /\ hist[b].n["credentials_provider_"] = 2
    /\ mem[b].credentials_provider_ \in Providers
    /\ destroyed # {}
    /\ use_count[mem[b].credentials_provider_] = Owners(mem[b].credentials_provider_)

\* C10: build() moves the provider reference out of the builder: the use
\* counts equal the numbers of owners, a built builder holds no provider until
\* withCredentialsProvider is called again, and a second build() without such a
\* call returns a Configuration with no provider, unequal to the first if that
\* had one.
BuildTransfers ==
  [](
    /\ \A p \in Providers : use_count[p] = Owners(p)
    /\ \A a1 \in DOMAIN returned :
         LET b == returned[a1].builder
             n1 == returned[a1].hist.n["credentials_provider_"]
         IN /\ (returned[a1].nth = builds[b] /\ hist[b].n["credentials_provider_"] = n1)
                 => mem[b].credentials_provider_ = Null
            /\ \A a2 \in DOMAIN returned :
                 ( /\ returned[a2].builder = b
                   /\ returned[a2].nth = returned[a1].nth + 1
                   /\ returned[a2].hist.n["credentials_provider_"] = n1 )
                 => /\ mem[a2].credentials_provider_ = Null
                    /\ mem[a1].credentials_provider_ # Null => mem[a2] # mem[a1]
  )

\* withCredentialsProvider(p), build(), build(): the first Configuration has
\* p, the second has none.
BuildTransfersWitness ==
  \E a1 \in DOMAIN returned, a2 \in DOMAIN returned :
    /\ returned[a2].builder = returned[a1].builder
    /\ returned[a2].nth = returned[a1].nth + 1
    /\ returned[a2].hist = returned[a1].hist
    /\ mem[a1].credentials_provider_ # Null
    /\ mem[a2].credentials_provider_ = Null
====
